---- MODULE Spec2Model ----
(***************************************************************************)
(* Model of the echo service of app/main.py: a FastAPI application with    *)
(* two GET routes, /echo and /echo/{name}.  A request is an ASGI scope     *)
(* (method, percent-decoded path); the application routes it exactly as    *)
(* the router built by `app = FastAPI()` does (routes tried in             *)
(* registration order, full match first, then the first partial match,     *)
(* then the trailing-slash redirect, then the default 404) and the         *)
(* matched endpoint builds the response.                                   *)
(*                                                                         *)
(* Strings are sequences of one-character strings, so that matching and    *)
(* formatting are computed on characters.                                  *)
(***************************************************************************)
EXTENDS Integers, Sequences, FiniteSets, TLC

VARIABLES pc, request, response, previous

vars == <<pc, request, response, previous>>

(***************************************************************************)
(* Bounds of the model.                                                    *)
(***************************************************************************)
\* longest request path, in segments (/a/b/c has three)
MaxSegs == 3

(***************************************************************************)
(* Text.                                                                   *)
(***************************************************************************)
Slash == "/"

\* the path segments requests are built from; Empty is the empty segment
Empty == <<>>
SegEcho == <<"e", "c", "h", "o">>
SegWorld == <<"W", "o", "r", "l", "d">>
SegDevOps == <<"D", "e", "v", "O", "p", "s">>
SegHealth == <<"h", "e", "a", "l", "t", "h">>
SegUnknown == <<"u", "n", "k", "n", "o", "w", "n">>
SegDocs == <<"d", "o", "c", "s">>
SegRedoc == <<"r", "e", "d", "o", "c">>
SegOpenapi == <<"o", "p", "e", "n", "a", "p", "i", ".", "j", "s", "o", "n">>
SegOauth == <<"o", "a", "u", "t", "h", "2", "-", "r", "e", "d", "i", "r", "e", "c", "t">>
\* a segment of unusual characters: space, double quote, angle bracket, brace
SegOdd == <<" ", "\"", "<", "{", "!">>

Segments ==
    {Empty, SegEcho, SegWorld, SegDevOps, SegHealth, SegUnknown, SegDocs,
     SegRedoc, SegOpenapi, SegOauth, SegOdd}

\* a non-empty path segment: the values a {name} parameter can take
Names == Segments \ {Empty}

\* the path /s1/s2/.../sn of the segments ss
RECURSIVE PathOf(_)
PathOf(ss) == IF ss = <<>> THEN <<>> ELSE <<Slash>> \o Head(ss) \o PathOf(Tail(ss))

Paths == {PathOf(ss) : ss \in UNION {[1..n -> Segments] : n \in 1..MaxSegs}}

Methods == {"GET", "POST", "HEAD"}

HasSlash(s) == \E i \in 1..Len(s) : s[i] = Slash

StartsWith(s, p) == Len(s) >= Len(p) /\ SubSeq(s, 1, Len(p)) = p

(***************************************************************************)
(* JSON values and responses.                                              *)
(***************************************************************************)
Str(chars) == [type |-> "string", value |-> chars]

\* the empty JSON object / the empty set of path parameters
NoContent == [f \in {} |-> Str(<<>>)]
NoParams == [f \in {} |-> <<>>]

JSONResponse(code, content, by, params) ==
    [status |-> code, media |-> "json", content |-> content, location |-> <<>>,
     handler |-> by, path_params |-> params]

HTMLResponse(by) ==
    [status |-> 200, media |-> "html", content |-> NoContent,
     location |-> <<>>, handler |-> by, path_params |-> NoParams]

RedirectResponse(url) ==
    [status |-> 307, media |-> "none", content |-> NoContent,
     location |-> url, handler |-> "", path_params |-> NoParams]

NoResponse ==
    [status |-> 0, media |-> "none", content |-> NoContent,
     location |-> <<>>, handler |-> "", path_params |-> NoParams]

NoRequest == [method |-> "", path |-> <<>>]

(***************************************************************************)
(* The endpoints of app/main.py.                                           *)
(***************************************************************************)
HelloComma == <<"H", "e", "l", "l", "o", ",", " ">>
Bang == <<"!">>

\* echo with the greeting in lower case
echo_lowercase ==
    [message |-> Str(<<"H", "e", "l", "l", "o", ",", " ", "w", "o", "r", "l", "d", "!">>)]

\* def echo(): return {"message": "Hello, World!"}
echo == [message |-> Str(HelloComma \o SegWorld \o Bang)]

\* echo_name that HTML-escapes the name it echoes
RECURSIVE Escaped(_)
Escaped(text) ==
    IF text = <<>> THEN <<>>
    ELSE (IF Head(text) = "<" THEN <<"&", "l", "t", ";">> ELSE <<Head(text)>>)
         \o Escaped(Tail(text))

echo_name_escaping(name) == [message |-> Str(HelloComma \o Escaped(name) \o Bang)]

\* echo_name that greets differently once it has answered before
echo_name_stateful(name) ==
    [message |-> Str(HelloComma \o name
                     \o (IF previous = NoResponse THEN <<>> ELSE <<" ", "a", "g", "a", "i", "n">>)
                     \o Bang)]

\* echo_name that also returns the name as a field of its own
echo_name_two_fields(name) ==
    [message |-> Str(HelloComma \o name \o Bang), name |-> Str(name)]

\* def echo_name(name: str): return {"message": f"Hello, {name}!"}
echo_name(name) == [message |-> Str(HelloComma \o name \o Bang)]

(***************************************************************************)
(* The routes of the application, in registration order.  FastAPI()        *)
(* registers its documentation routes first (openapi_url, docs_url, the    *)
(* oauth2 redirect, redoc_url, all with their defaults), as plain routes   *)
(* that answer GET and HEAD; the two @app.get routes follow and answer     *)
(* GET only.  A route's path is its literal text followed, when param is   *)
(* not empty, by one parameter of the default (str) convertor.             *)
(***************************************************************************)
Route(literal, param, methods, endpoint) ==
    [literal |-> literal, param |-> param, methods |-> methods, endpoint |-> endpoint]

routes ==
    << Route(PathOf(<<SegOpenapi>>), "", {"GET", "HEAD"}, "openapi"),
       Route(PathOf(<<SegDocs>>), "", {"GET", "HEAD"}, "swagger_ui_html"),
       Route(PathOf(<<SegDocs, SegOauth>>), "", {"GET", "HEAD"}, "swagger_ui_redirect"),
       Route(PathOf(<<SegRedoc>>), "", {"GET", "HEAD"}, "redoc_html"),
       Route(PathOf(<<SegEcho>>), "", {"GET"}, "echo"),
       Route(PathOf(<<SegEcho, Empty>>), "name", {"GET"}, "echo_name") >>

\* FastAPI(redirect_slashes=False)
redirect_slashes_off == FALSE

\* FastAPI(redirect_slashes=True) is the default
redirect_slashes == TRUE

\* the text a path leaves for the parameter of the route
ParamText(route, path) == SubSeq(path, Len(route.literal) + 1, Len(path))

\* a parameter that may be empty, [^/]*
PathMatches_empty_name(route, path) ==
    IF route.param = ""
    THEN path = route.literal
    ELSE /\ StartsWith(path, route.literal)
         /\ ~HasSlash(ParamText(route, path))

\* a literal path matched as a prefix, ^literal without the $
PathMatches_prefix(route, path) ==
    IF route.param = ""
    THEN StartsWith(path, route.literal)
    ELSE /\ StartsWith(path, route.literal)
         /\ Len(path) > Len(route.literal)
         /\ ~HasSlash(ParamText(route, path))

\* a parameter of the path convertor, {name:path}, which takes slashes
PathMatches_path_convertor(route, path) ==
    IF route.param = ""
    THEN path = route.literal
    ELSE /\ StartsWith(path, route.literal)
         /\ Len(path) > Len(route.literal)

\* the route's compiled path, ^literal$ or ^literal(?P<param>[^/]+)$, matches
PathMatches(route, path) ==
    IF route.param = ""
    THEN path = route.literal
    ELSE /\ StartsWith(path, route.literal)
         /\ Len(path) > Len(route.literal)
         /\ ~HasSlash(ParamText(route, path))

\* the path parameters a matching route binds
PathParams(route, path) ==
    IF route.param = "" THEN NoParams ELSE [name |-> ParamText(route, path)]

\* Route.matches: NONE, PARTIAL (path matches, method does not) or FULL
matches(route, scope) ==
    IF ~PathMatches(route, scope.path) THEN "NONE"
    ELSE IF scope.method \notin route.methods THEN "PARTIAL"
    ELSE "FULL"

Matching(kind, scope) == {i \in 1..Len(routes) : matches(routes[i], scope) = kind}

Min(S) == CHOOSE i \in S : \A j \in S : i <= j

\* str.rstrip("/")
RECURSIVE rstrip(_)
rstrip(path) ==
    IF path # <<>> /\ path[Len(path)] = Slash
    THEN rstrip(SubSeq(path, 1, Len(path) - 1))
    ELSE path

\* the scope the router probes before it gives up: trailing slashes
\* stripped, or one slash appended
redirect_scope(scope) ==
    [scope EXCEPT !.path = IF scope.path[Len(scope.path)] = Slash
                           THEN rstrip(scope.path)
                           ELSE scope.path \o <<Slash>>]

\* Router: the first full match, else the first partial match, else the
\* redirect when the probed path matches some route, else the default
Dispatch(scope) ==
    IF Matching("FULL", scope) # {}
    THEN [kind |-> "handle", route |-> Min(Matching("FULL", scope))]
    ELSE IF Matching("PARTIAL", scope) # {}
    THEN [kind |-> "handle", route |-> Min(Matching("PARTIAL", scope))]
    ELSE IF /\ redirect_slashes
            /\ scope.path # <<Slash>>
            /\ \E i \in 1..Len(routes) : matches(routes[i], redirect_scope(scope)) # "NONE"
    THEN [kind |-> "redirect", route |-> 0]
    ELSE [kind |-> "default", route |-> 0]

Detail(chars) == [detail |-> Str(chars)]
NotFoundText == <<"N", "o", "t", " ", "F", "o", "u", "n", "d">>
NotAllowedText ==
    <<"M", "e", "t", "h", "o", "d", " ", "N", "o", "t", " ", "A", "l", "l", "o", "w", "e", "d">>

\* the document served at /openapi.json, by its top-level fields
OpenAPIDocument ==
    [openapi |-> Str(<<"3", ".", "1", ".", "0">>),
     info |-> [type |-> "object", value |-> <<>>],
     paths |-> [type |-> "object", value |-> <<>>]]

\* the endpoint of the route, run on the bound parameters
RunEndpoint(route, params) ==
    CASE route.endpoint = "echo" -> JSONResponse(200, echo, "echo", params)
      [] route.endpoint = "echo_name" ->
            JSONResponse(200, echo_name(params.name), "echo_name", params)
      [] route.endpoint = "openapi" -> JSONResponse(200, OpenAPIDocument, "openapi", params)
      [] OTHER -> HTMLResponse(route.endpoint)

\* a handle that runs the endpoint whatever the method
handle_any_method(route, scope) == RunEndpoint(route, PathParams(route, scope.path))

\* Route.handle: 405 when the method is not one of the route's
handle(route, scope) ==
    IF scope.method \notin route.methods
    THEN JSONResponse(405, Detail(NotAllowedText), "", NoParams)
    ELSE RunEndpoint(route, PathParams(route, scope.path))

\* the application as a function from request to response
app(scope) ==
    LET d == Dispatch(scope) IN
    CASE d.kind = "handle" -> handle(routes[d.route], scope)
      [] d.kind = "redirect" -> RedirectResponse(redirect_scope(scope).path)
      [] OTHER -> JSONResponse(404, Detail(NotFoundText), "", NoParams)

(***************************************************************************)
(* The service.  It holds nothing between exchanges: the state is the      *)
(* exchange in hand.  A client sends a request, the application answers    *)
(* it, and the client either sends the same request again or closes the    *)
(* exchange.  previous is the answer the request in hand got the time      *)
(* before, NoResponse when it was not sent before.                         *)
(***************************************************************************)
Requests == [method : Methods, path : Paths]

Init ==
    /\ pc = "idle"
    /\ request = NoRequest
    /\ response = NoResponse
    /\ previous = NoResponse

Receive ==
    /\ pc = "idle"
    /\ pc' = "pending"
    /\ request' \in Requests
    /\ UNCHANGED <<response, previous>>

\* the client sends the request it has just been answered once more
Repeat ==
    /\ pc = "done"
    /\ pc' = "pending"
    /\ previous' = response
    /\ response' = NoResponse
    /\ UNCHANGED request

\* the exchange ends and nothing of it is kept
Close ==
    /\ pc = "done"
    /\ pc' = "idle"
    /\ request' = NoRequest
    /\ response' = NoResponse
    /\ previous' = NoResponse

\* the application answers the request in hand
Respond ==
    /\ pc = "pending"
    /\ response' = app(request)
    /\ pc' = "done"
    /\ UNCHANGED <<request, previous>>

\* the request in hand reaches an endpoint of the application
Served(endpoint) ==
    /\ pc = "pending"
    /\ Dispatch(request).kind = "handle"
    /\ request.method \in routes[Dispatch(request).route].methods
    /\ routes[Dispatch(request).route].endpoint = endpoint
    /\ Respond

ServeEcho == Served("echo")

ServeEchoName == Served("echo_name")

ServeDocs ==
    \E e \in {"openapi", "swagger_ui_html", "swagger_ui_redirect", "redoc_html"} : Served(e)

\* the path matches a route that does not allow the method
MethodNotAllowed ==
    /\ pc = "pending"
    /\ Dispatch(request).kind = "handle"
    /\ request.method \notin routes[Dispatch(request).route].methods
    /\ Respond

\* no route matches, but one matches the path with its slash toggled
RedirectSlashes ==
    /\ pc = "pending"
    /\ Dispatch(request).kind = "redirect"
    /\ Respond

\* no route matches at all
NotFound ==
    /\ pc = "pending"
    /\ Dispatch(request).kind = "default"
    /\ Respond

Next ==
    \/ Receive
    \/ Repeat
    \/ Close
    \/ ServeEcho
    \/ ServeEchoName
    \/ ServeDocs
    \/ MethodNotAllowed
    \/ RedirectSlashes
    \/ NotFound

Spec == Init /\ [][Next]_vars

TypeOK ==
    /\ pc \in {"idle", "pending", "done"}
    /\ request.method \in Methods \cup {""}
    /\ pc = "idle" <=> request = NoRequest
    /\ response.status \in {0, 200, 307, 404, 405}
    /\ previous.status \in {0, 200, 307, 404, 405}

(***************************************************************************)
(* Properties.                                                             *)
(***************************************************************************)
Get(path) == [method |-> "GET", path |-> path]

Answered(r) == pc = "done" /\ request = r

EchoHandlers == {"echo", "echo_name"}

\* the segments of a path: the inverse of PathOf, used to state properties
FirstSlash(s) == IF HasSlash(s) THEN Min({i \in 1..Len(s) : s[i] = Slash}) ELSE Len(s) + 1

RECURSIVE SegmentsOf(_)
SegmentsOf(path) ==
    IF path = <<>> THEN <<>>
    ELSE LET rest == Tail(path)
             n == FirstSlash(rest)
         IN  <<SubSeq(rest, 1, n - 1)>> \o SegmentsOf(SubSeq(rest, n, Len(rest)))

\* a payload with the single field message, a string
IsMessage(r) ==
    /\ r.media = "json"
    /\ DOMAIN r.content = {"message"}
    /\ r.content.message.type = "string"

HelloWorldText == <<"H", "e", "l", "l", "o", ",", " ", "W", "o", "r", "l", "d", "!">>

\* some route's path matches the path, whatever the method
SomeRouteMatches(path) == \E i \in 1..Len(routes) : PathMatches(routes[i], path)

\* C1: for every non-empty segment s, GET /echo/s is answered 200 with the
\* body {"message": "Hello, s!"}, s unchanged
C1_EchoNameVerbatim ==
    \A s \in Names :
        Answered(Get(PathOf(<<SegEcho, s>>))) =>
            /\ response.status = 200
            /\ response.media = "json"
            /\ response.content = [message |-> Str(<<"H", "e", "l", "l", "o", ",", " ">> \o s \o <<"!">>)]

C1_Witness ==
    /\ Answered(Get(PathOf(<<SegEcho, SegOdd>>)))
    /\ response.status = 200
    /\ response.handler = "echo_name"

\* C2: GET /echo is answered 200 with {"message": "Hello, World!"}, also
\* when it was sent before
C2_EchoHelloWorld ==
    Answered(Get(PathOf(<<SegEcho>>))) =>
        /\ response.status = 200
        /\ response.media = "json"
        /\ response.content = [message |-> Str(HelloWorldText)]

C2_Witness ==
    /\ Answered(Get(PathOf(<<SegEcho>>)))
    /\ previous # NoResponse
    /\ response.handler = "echo"

\* C3: GET /health is answered 200 with {"status": "healthy"}
C3_HealthOK ==
    Answered(Get(PathOf(<<SegHealth>>))) =>
        /\ response.status = 200
        /\ response.media = "json"
        /\ response.content = [status |-> Str(<<"h", "e", "a", "l", "t", "h", "y">>)]

\* C4 as stated: a GET for a path that matches no route is answered 404 and
\* reaches neither echo handler
C4_UnmatchedIs404 ==
    (pc = "done" /\ request.method = "GET" /\ ~SomeRouteMatches(request.path)) =>
        /\ response.status = 404
        /\ response.handler \notin EchoHandlers

\* C4 amended: a GET for a path that matches no route reaches no handler; it
\* is answered 404 (so is GET /unknown), unless the path with its trailing
\* slashes stripped, or with a slash appended when it has none, matches a
\* route, and then it is answered with a 307 redirect to that path
C4_UnmatchedIs404OrRedirect ==
    /\ (pc = "done" /\ request.method = "GET" /\ ~SomeRouteMatches(request.path)) =>
          /\ response.handler = ""
          /\ IF request.path # <<Slash>> /\ SomeRouteMatches(redirect_scope(request).path)
             THEN response.status = 307 /\ response.location = redirect_scope(request).path
             ELSE response.status = 404
    /\ Answered(Get(PathOf(<<SegUnknown>>))) => response.status = 404

C4_Witness ==
    /\ Answered(Get(PathOf(<<SegUnknown>>)))
    /\ response.status = 404

\* C5 as stated: GET /echo/ is answered 404, neither served by a handler
\* nor redirected
C5_EmptyNameIs404 ==
    Answered(Get(PathOf(<<SegEcho, Empty>>))) =>
        /\ response.status = 404
        /\ response.handler = ""
        /\ response.location = <<>>

\* C5 amended: GET /echo/ matches no handler (echo_name never gets an empty
\* name, echo does not serve it): the router answers it with a 307 redirect
\* to /echo
C5_EmptyNameRedirects ==
    Answered(Get(PathOf(<<SegEcho, Empty>>))) =>
        /\ response.status = 307
        /\ response.handler = ""
        /\ response.content = NoContent
        /\ response.location = <<"/", "e", "c", "h", "o">>

C5_Witness ==
    /\ Answered(Get(PathOf(<<SegEcho, Empty>>)))
    /\ response.status = 307

\* C6: a request with a method other than GET for /echo or /echo/{name} is
\* answered 405 and runs no handler; only GET requests get a greeting
C6_OnlyGet ==
    /\ \A s \in Segments :
          ( /\ pc = "done"
            /\ request.method # "GET"
            /\ request.path = (IF s = Empty THEN PathOf(<<SegEcho>>) ELSE PathOf(<<SegEcho, s>>)) )
          => (response.status = 405 /\ response.handler = "")
    /\ (pc = "done" /\ (response.handler \in EchoHandlers \/ IsMessage(response)))
          => request.method = "GET"

C6_Witness ==
    /\ Answered([method |-> "POST", path |-> PathOf(<<SegEcho, SegDevOps>>)])
    /\ response.status = 405

C8_Every200IsMessage ==
    (pc = "done" /\ response.status = 200) => IsMessage(response)

\* C8 amended: every 200 response of the echo and echo_name handlers is a
\* payload with the single field message, a string; the other 200 responses
\* are those of the documentation routes FastAPI() adds (/openapi.json,
\* /docs, /docs/oauth2-redirect, /redoc)
C8_Echo200IsMessage ==
    (pc = "done" /\ response.status = 200) =>
        IF request.path \in {PathOf(<<SegOpenapi>>), PathOf(<<SegDocs>>),
                             PathOf(<<SegDocs, SegOauth>>), PathOf(<<SegRedoc>>)}
        THEN response.handler \notin EchoHandlers
        ELSE response.handler \in EchoHandlers /\ IsMessage(response)

C8_Witness ==
    /\ pc = "done"
    /\ response.status = 200
    /\ response.handler = "echo_name"
    /\ IsMessage(response)

\* C9: no GET path matches two routes, /echo is served by echo, and
\* /echo/s with a non-empty segment s is served by echo_name, also when s
\* is echo or World
C9_DispatchUnambiguous ==
    (pc = "done" /\ request.method = "GET") =>
        /\ Cardinality({i \in 1..Len(routes) : PathMatches(routes[i], request.path)}) <= 1
        /\ request.path = PathOf(<<SegEcho>>) => response.handler = "echo"
        /\ \A s \in Names :
              request.path = PathOf(<<SegEcho, s>>) =>
                  (response.handler = "echo_name" /\ response.path_params = [name |-> s])

C9_Witness ==
    /\ Answered(Get(PathOf(<<SegEcho, SegEcho>>)))
    /\ response.handler = "echo_name"

\* the segments that follow /echo in the path of the request in hand
AfterEcho == Tail(SegmentsOf(request.path))

UnderEcho == request.path # <<>> /\ Head(SegmentsOf(request.path)) = SegEcho

\* C10 as stated: the bound name has no slash, and a GET whose path has more
\* than one segment after /echo is answered 404
C10_ManySegmentsIs404 ==
    /\ (pc = "done" /\ response.handler = "echo_name") => ~HasSlash(response.path_params.name)
    /\ (pc = "done" /\ request.method = "GET" /\ UnderEcho /\ Len(AfterEcho) > 1)
          => (response.status = 404 /\ response.handler = "")

\* C10 amended: the bound name has no slash, and a GET whose path has more
\* than one segment after /echo reaches no handler and is not echoed: it is
\* answered 404, except that when every segment after the first is empty
\* (the path is /echo/s or /echo/ followed by slashes only) it is answered
\* with a 307 redirect to the path without those slashes
C10_ManySegmentsNotEchoed ==
    /\ (pc = "done" /\ response.handler = "echo_name") => ~HasSlash(response.path_params.name)
    /\ (pc = "done" /\ request.method = "GET" /\ UnderEcho /\ Len(AfterEcho) > 1)
          => /\ response.handler = ""
             /\ ~IsMessage(response)
             /\ IF \A i \in 2..Len(AfterEcho) : AfterEcho[i] = Empty
                THEN /\ response.status = 307
                     /\ response.location =
                            IF AfterEcho[1] = Empty THEN PathOf(<<SegEcho>>)
                            ELSE PathOf(<<SegEcho, AfterEcho[1]>>)
                ELSE response.status = 404

C10_Witness ==
    /\ Answered(Get(PathOf(<<SegEcho, SegDevOps, SegWorld>>)))
    /\ response.status = 404

====
